---- MODULE Spec2Model ----
(***************************************************************************)
(* Interview session orchestrator of the Homework Validator front end      *)
(* (frontend/app/page.js, component Home) together with the outcomes of    *)
(* the backend endpoints it calls (backend/index.js).                      *)
(*                                                                         *)
(* Home is a React function component.  Its state lives in useState cells; *)
(* a handler or effect callback reads the values of the render in which it *)
(* was created (its closure) and writes through the setters.  The model    *)
(* keeps both: `live` is the state with every queued update applied (what  *)
(* a functional updater receives as `prev`), `view` is the state of the    *)
(* last committed render (what closures and the rendered buttons see).     *)
(* Updates made in a user event handler are committed before the next      *)
(* event (React flushes discrete events synchronously); updates made in a  *)
(* timer callback or after an await are committed by a later Render step.  *)
(* A request never resolves before the render scheduled at its issue.      *)
(***************************************************************************)
EXTENDS Integers, Sequences, FiniteSets, TLC

\* ---------------------------------------------------------------- bounds
\* seconds per topic, scaled down from the 180 of page.js:9
TOPIC_SECONDS == 2
\* grace countdown, scaled down from the 5 of page.js:10
AUTO_ADVANCE_SECONDS == 2
\* the analysis step returns 0..MaxAnalysisTopics topics
MaxAnalysisTopics == 2
\* at most this many turns are appended to one topic
MaxTurns == 4
\* at most this many requests are outstanding at once
MaxInflight == 2
\* at most this many timer callbacks and continuations run between two renders
MaxPending == 1
\* at most this many documents are submitted for analysis in one run
MaxUploads == 1
\* the output of the language model names at most this many topics
MaxParsedTopics == 6
\* at most this many documents are submitted in a run that may upload again
MaxReuploads == 2
\* at most this many callbacks and continuations run between two renders
\* when the last of them is the callback of the topic timer
MaxPendingTick == 2

\* ------------------------------------------------------- program constants
\* (data.analysis?.topics || []).slice(0, 3)
TopicLimit == 3
\* parsed.topics.slice(0, 5)
BackendTopicLimit == 5

Min(a, b) == IF a < b THEN a ELSE b
Max(a, b) == IF a > b THEN a ELSE b

\* POST /api/analyze: the number of topics in the response when the output
\* of the language model names k topics
AnalysisTopics(k) == Min(k, BackendTopicLimit)

\* values of the <input type=file> handed to handleUpload
Files == {"not-pdf", "pdf"}
\* contents of the answer box
Inputs == {"", " ", "a"}
\* String.prototype.trim on the modelled inputs
Trim(s) == IF s = " " THEN "" ELSE s

\* the turn text of handleVoiceSubmit when nothing was transcribed
NoResponse == "(no-response)"

VARIABLES live, view, refs, inflight, countdownArmed, pending, uploads, summaryRequests,
          backend, speech

vars == <<live, view, refs, inflight, countdownArmed, pending, uploads, summaryRequests, backend,
          speech>>

\* ------------------------------------------------------------------ state
\* useState initial values of Home
InitialState ==
  [ phase |-> "upload",
    assignmentText |-> "",
    topicsState |-> <<>>,
    currentTopicIndex |-> 0,
    aiGenerating |-> FALSE,
    isTyping |-> FALSE,
    studentInput |-> "",
    error |-> "",
    resultSummary |-> <<>>,
    modal |-> "none",
    autoCountdown |-> AUTO_ADVANCE_SECONDS,
    advancing |-> FALSE,
    interviewMode |-> "none",
    turnSubmitted |-> FALSE,
    isTranscribing |-> FALSE,
    isSpeaking |-> FALSE,
    isListening |-> FALSE ]

\* useRef cells of Home: prevTurnsLengthRef, prevTopicIndexRef,
\* prevSpeakingRef (phaseRef and topicIndexRef hold the values of the last
\* render, which are those of view)
InitialRefs == [prevTurnsLength |-> 0, prevTopicIndex |-> 0, prevSpeaking |-> FALSE]

\* refs of useSpeechSynthesis: the request that carries the latest
\* requestId and the Audio element. state "idle": nothing requested or
\* playing; "requested": POST /api/tts is outstanding for a question of
\* topic `topic`; "playing": its audio is playing
Idle == [state |-> "idle", topic |-> 0]
Requested(topic) == [state |-> "requested", topic |-> topic]
Playing(topic) == [state |-> "playing", topic |-> topic]

\* normalizedTopics of handleUpload: one entry per analysed topic
NormalizedTopics(n) ==
  [ idx \in 1..n |->
      [ id |-> idx,
        timeLeft |-> TOPIC_SECONDS,
        turns |-> <<>>,
        status |-> IF idx = 1 THEN "active" ELSE "pending",
        started |-> FALSE,
        asked |-> FALSE ] ]

\* topicsState[i] with the source's 0-based index
HasTopic(ts, i) == i >= 0 /\ i < Len(ts)
TopicAt(ts, i) == ts[i + 1]

AiTurn(text) == [role |-> "ai", text |-> text]
StudentTurn(text) == [role |-> "student", text |-> text]

\* (topic.turns || []).some((turn) => turn.role === "ai")
AlreadyHasQuestion(topic) == \E k \in 1..Len(topic.turns) : topic.turns[k].role = "ai"

\* ---------------------------------------------------------- buildTranscript
\* one line per turn; a topic without turns joins to the empty string,
\* which the outer join keeps as an empty line
TranscriptLine(turn) ==
  [label |-> IF turn.role = "ai" THEN "AI" ELSE "Student", text |-> turn.text]
EmptyLine == [label |-> "", text |-> ""]
TopicLines(topic) ==
  IF Len(topic.turns) = 0 THEN <<EmptyLine>>
  ELSE [k \in 1..Len(topic.turns) |-> TranscriptLine(topic.turns[k])]
RECURSIVE buildTranscript(_)
buildTranscript(topics) ==
  IF Len(topics) = 0 THEN <<>>
  ELSE TopicLines(Head(topics)) \o buildTranscript(Tail(topics))
\* the joined string is empty (falsy for the backend) iff there is no
\* non-empty line
TranscriptIsEmpty(tr) == \A k \in 1..Len(tr) : tr[k] = EmptyLine

\* ------------------------------------------------------------ /api/summary
GoodSummary ==
  [strengths |-> <<"strength">>, weaknesses |-> <<"weakness">>, overallComment |-> "comment"]
\* the object the backend substitutes when the model output cannot be parsed
PlaceholderSummary ==
  [strengths |-> <<>>, weaknesses |-> <<"summary-failed">>, overallComment |-> "no-answers"]
\* outcomes of POST /api/summary as seen by apiFetch: "ok" a parsed summary,
\* "unparseable" the placeholder with status 200, "error" a non-OK status or
\* a network failure (apiFetch throws)
SummaryOutcomes(transcript) ==
  IF TranscriptIsEmpty(transcript) THEN {"error"} ELSE {"ok", "unparseable", "error"}
SummaryBody(outcome) == IF outcome = "ok" THEN GoodSummary ELSE PlaceholderSummary

\* ----------------------------------------------------------------- backend
\* text produced by the language model: kind "empty", "garbage" (no JSON
\* in it), "json", "fenced" (JSON inside a ``` fence), "plain" (a question);
\* n: the length of the topics array of the JSON, -1 if it has none
Text(kind, n) == [kind |-> kind, n |-> n]
LlmThrows == [kind |-> "throws", n |-> 0]
NotCalled == [kind |-> "not-called", n |-> 0]

Null == [null |-> TRUE, n |-> 0]
Parsed(n) == [null |-> FALSE, n |-> n]
safeParseJson(text) == IF text.kind = "json" THEN Parsed(text.n) ELSE Null
parseJsonRelaxed(text) == IF text.kind \in {"json", "fenced"} THEN Parsed(text.n) ELSE Null
\* safeParseJson(text) || parseJsonRelaxed(text)
ParseEither(text) ==
  IF ~safeParseJson(text).null THEN safeParseJson(text) ELSE parseJsonRelaxed(text)

\* a runLLM that refuses to work without a key
runLLM_RequiresKey(hasApiKey, llm) ==
  IF ~hasApiKey \/ llm = LlmThrows
    THEN [threw |-> TRUE, fallback |-> FALSE, text |-> Text("empty", 0)]
    ELSE [threw |-> FALSE, fallback |-> FALSE, text |-> llm]

\* llm: what openai.responses.create yields if it is called
runLLM(hasApiKey, llm) ==
  IF ~hasApiKey THEN [threw |-> FALSE, fallback |-> TRUE, text |-> Text("empty", 0)]
  ELSE IF llm = LlmThrows THEN [threw |-> TRUE, fallback |-> FALSE, text |-> Text("empty", 0)]
  ELSE [threw |-> FALSE, fallback |-> FALSE, text |-> llm]

\* the request body: assignmentText "" or "essay"; pdf "none" (no
\* pdfBase64), "corrupt" (pdfParse throws), "blank" (no text in it) or
\* "essay"; topic present or not; transcript "" or "log"
Request(assignmentText, pdf, topic, transcript) ==
  [assignmentText |-> assignmentText, pdf |-> pdf, topic |-> topic, transcript |-> transcript]
NoRequest == Request("", "none", FALSE, "")

Response(status, error, topics, text, question, summary, fallback) ==
  [status |-> status, error |-> error, topics |-> topics, text |-> text,
   question |-> question, summary |-> summary, fallback |-> fallback]
ErrorResponse(status, error) == Response(status, error, <<>>, "", "", <<>>, FALSE)
Unanswered == ErrorResponse(0, "")

\* the topic substituted when the model output cannot be parsed, and the
\* topics normalized from a parsed output
DefaultTopics == <<[id |-> 1, description |-> "parse-failed"]>>
ParsedTopics(n) ==
  IF n < 0 THEN <<>> ELSE [j \in 1..AnalysisTopics(n) |-> [id |-> j, description |-> "from-model"]]

DefaultQuestion == "default-question"

\* assignmentPlain of POST /api/analyze ("" where the handler returns 400)
AssignmentPlain(req) ==
  IF req.assignmentText # "" THEN req.assignmentText
  ELSE IF req.pdf = "essay" THEN "essay" ELSE ""

\* POST /api/analyze
analyze(hasApiKey, req, llm) ==
  IF req.assignmentText = "" /\ req.pdf = "none" THEN ErrorResponse(400, "required")
  ELSE IF AssignmentPlain(req) = "" THEN ErrorResponse(400, "failed_to_extract_text")
  ELSE LET r == runLLM(hasApiKey, llm)
           parsed == ParseEither(r.text)
       IN IF r.threw THEN ErrorResponse(500, "analyze_failed")
          ELSE Response(200, "",
                        IF parsed.null THEN DefaultTopics ELSE ParsedTopics(parsed.n),
                        AssignmentPlain(req), "", <<>>, r.fallback)

\* POST /api/question
question(hasApiKey, req, llm) ==
  IF ~req.topic THEN ErrorResponse(400, "required")
  ELSE LET r == runLLM(hasApiKey, llm)
       IN IF r.threw THEN ErrorResponse(500, "question_failed")
          ELSE Response(200, "", <<>>, "",
                        IF r.text.kind = "empty" THEN DefaultQuestion ELSE "q",
                        <<>>, r.fallback)

\* POST /api/summary
summary(hasApiKey, req, llm) ==
  IF req.transcript = "" THEN ErrorResponse(400, "required")
  ELSE LET r == runLLM(hasApiKey, llm)
           parsed == ParseEither(r.text)
       IN IF r.threw THEN ErrorResponse(500, "summary_failed")
          ELSE Response(200, "", <<>>, "", "",
                        <<IF parsed.null THEN PlaceholderSummary ELSE GoodSummary>>,
                        r.fallback)

\* the backend process: its configuration and the last exchange it served
Exchange(hasApiKey, endpoint, req, llm, response) ==
  [hasApiKey |-> hasApiKey, endpoint |-> endpoint, request |-> req,
   llm |-> IF hasApiKey THEN llm ELSE NotCalled, response |-> response]
BackendIdle(hasApiKey) == Exchange(hasApiKey, "none", NoRequest, NotCalled, Unanswered)

\* ---------------------------------------------------------------- requests
\* an outstanding request with what its continuation holds in local
\* variables and in its closure: index (the topic index it will write to),
\* from (currentTopicIndex of the closure that issued it), nextTurns,
\* transcript (the body sent to /api/summary), adv (the continuation of
\* completeTopic follows), fresh (issued since the last render)
Task(kind, index, from, nextTurns, transcript, adv, fresh) ==
  [kind |-> kind, index |-> index, from |-> from, nextTurns |-> nextTurns,
   transcript |-> transcript, adv |-> adv, fresh |-> fresh]

RemoveAt(s, i) == [k \in 1..(Len(s) - 1) |-> IF k < i THEN s[k] ELSE s[k + 1]]
Settle(s) == [k \in 1..Len(s) |-> [s[k] EXCEPT !.fresh = FALSE]]

Init ==
  /\ live = InitialState
  /\ view = InitialState
  /\ refs = InitialRefs
  /\ inflight = <<>>
  /\ countdownArmed = FALSE
  /\ pending = 0
  /\ uploads = 0
  /\ summaryRequests = 0
  /\ backend = BackendIdle(TRUE)
  /\ speech = Idle

\* ------------------------------------------------------------ render/effects
\* effect at page.js:204; it calls triggerAutoModal
ZeroCrossing(n) ==
  /\ n.phase = "interview"
  /\ HasTopic(n.topicsState, n.currentTopicIndex)
  /\ TopicAt(n.topicsState, n.currentTopicIndex).timeLeft <= 0
  /\ ~(n.modal = "auto-exit" \/ n.advancing)

triggerAutoModal(l) == [l EXCEPT !.modal = "auto-exit", !.autoCountdown = AUTO_ADVANCE_SECONDS]

\* dependency list of the countdown effect: modal?.type and completeTopic,
\* whose identity follows the dependency list of its useCallback
CountdownDepsChanged(o, n) ==
  \/ o.modal # n.modal
  \/ o.advancing # n.advancing
  \/ o.topicsState # n.topicsState
  \/ o.currentTopicIndex # n.currentTopicIndex
  \/ o.interviewMode # n.interviewMode

\* effect at page.js:140: a change of currentTopicIndex resets
\* prevTurnsLengthRef and stops playback
TopicChanged(rf, n) == n.currentTopicIndex # rf.prevTopicIndex

\* effect at page.js:148: a new last turn by the AI is spoken in voice mode
SpeakDue(rf, n) ==
  /\ n.interviewMode = "voice" /\ ~n.aiGenerating /\ n.phase = "interview"
  /\ HasTopic(n.topicsState, n.currentTopicIndex)
  /\ LET turns == TopicAt(n.topicsState, n.currentTopicIndex).turns
         prev == IF TopicChanged(rf, n) THEN 0 ELSE rf.prevTurnsLength
     IN Len(turns) > prev /\ turns[Len(turns)].role = "ai"

\* effect at page.js:162: when playback has ended and no answer is under
\* way, voice mode starts the recorder
ListenDue(rf, n) ==
  /\ n.interviewMode = "voice" /\ n.phase = "interview"
  /\ rf.prevSpeaking /\ ~n.isSpeaking /\ ~n.turnSubmitted /\ ~n.aiGenerating

\* effect at page.js:173: outside the interview, voice mode stops capture
\* and playback
VoiceOutsideInterview(n) == n.phase # "interview" /\ n.interviewMode = "voice"

\* stopListening of useWhisperRecognition with an active recorder (it
\* returns at once with an inactive one): the recording is sent to
\* /api/stt, isTranscribing is set until that request has been answered
stopListening(l) ==
  IF l.isListening THEN [l EXCEPT !.isListening = FALSE, !.isTranscribing = TRUE] ELSE l

RefsAfter(rf, n) ==
  LET prev == IF TopicChanged(rf, n) THEN 0 ELSE rf.prevTurnsLength
      skip == n.interviewMode # "voice" \/ n.aiGenerating \/ n.phase # "interview"
      len == IF HasTopic(n.topicsState, n.currentTopicIndex)
               THEN Len(TopicAt(n.topicsState, n.currentTopicIndex).turns) ELSE 0
  IN [prevTurnsLength |-> IF skip THEN prev ELSE len,
      prevTopicIndex |-> n.currentTopicIndex,
      prevSpeaking |-> IF n.interviewMode = "voice" /\ n.phase = "interview"
                         THEN n.isSpeaking ELSE rf.prevSpeaking]

\* state after the effects of the render of n have run (o: previous render,
\* rf: the refs before the effects)
AfterEffects(o, n, rf) ==
  LET l0 == IF TopicChanged(rf, n) THEN [n EXCEPT !.isSpeaking = FALSE] ELSE n
      l1 == IF SpeakDue(rf, n)
              THEN [l0 EXCEPT !.turnSubmitted = FALSE, !.isSpeaking = TRUE] ELSE l0
      la == IF ListenDue(rf, n) THEN [l1 EXCEPT !.isListening = TRUE] ELSE l1
      l2 == IF VoiceOutsideInterview(n) THEN stopListening([la EXCEPT !.isSpeaking = FALSE]) ELSE la
      l3 == IF ZeroCrossing(n) THEN triggerAutoModal(l2) ELSE l2
  IN IF CountdownDepsChanged(o, n) /\ n.modal = "auto-exit"
       THEN [l3 EXCEPT !.autoCountdown = AUTO_ADVANCE_SECONDS]
       ELSE l3

\* the interval of the countdown effect after the render of n
ArmedAfter(o, n, armed) ==
  IF CountdownDepsChanged(o, n) THEN n.modal = "auto-exit" ELSE armed

\* result of a handler: the new live state and the requests it issued
Result(l, issue) == [live |-> l, issue |-> issue]

\* the request to /api/stt sent by stopListening when it is not called
\* from handleVoiceSubmit: its text only reaches the transcript
CaptureIssue(l, fresh) ==
  IF l.isListening THEN <<Task("capture", 0, 0, <<>>, <<>>, FALSE, fresh)>> ELSE <<>>

\* requests issued by the effects of the render of n
EffectIssue(n) == IF VoiceOutsideInterview(n) THEN CaptureIssue(n, FALSE) ELSE <<>>

\* the playback after a step: speak() replaces whatever was requested or
\* playing, stop() and the end of the audio leave nothing
SpeechAfter(sp, l, spoke, topic) ==
  IF spoke THEN Requested(topic) ELSE IF ~l.isSpeaking THEN Idle ELSE sp

CountSummary(issue) == Cardinality({k \in 1..Len(issue) : issue[k].kind = "summary"})

\* a handler run from a user event: its updates are rendered before the
\* next event
Flushed(r, armed) ==
  /\ view' = r.live
  /\ live' = AfterEffects(view, r.live, refs)
  /\ refs' = RefsAfter(refs, r.live)
  /\ countdownArmed' = ArmedAfter(view, r.live, armed)
  /\ inflight' = Settle(inflight \o r.issue \o EffectIssue(r.live))
  /\ speech' = SpeechAfter(speech, live', SpeakDue(refs, r.live), r.live.currentTopicIndex)
  /\ pending' = 0
  /\ uploads' = uploads + Cardinality({k \in 1..Len(r.issue) : r.issue[k].kind = "analyze"})
  /\ summaryRequests' = summaryRequests + CountSummary(r.issue)
  /\ UNCHANGED backend

\* a timer callback or a continuation after an await: rendered later; max:
\* the number of callbacks and continuations that may run between two
\* renders
DeferredWithin(r, armed, max) ==
  /\ pending < max
  /\ pending' = pending + 1
  /\ live' = r.live
  /\ countdownArmed' = armed
  /\ inflight' = inflight \o r.issue
  /\ speech' = SpeechAfter(speech, live', FALSE, 0)
  /\ summaryRequests' = summaryRequests + CountSummary(r.issue)
  /\ UNCHANGED <<view, refs, uploads, backend>>

Deferred(r, armed) == DeferredWithin(r, armed, MaxPending)

\* a request of inflight resolves; its continuation runs after the await
Resolved(i, r) ==
  /\ pending < MaxPending
  /\ pending' = pending + 1
  /\ live' = r.live
  /\ inflight' = RemoveAt(inflight, i) \o r.issue
  /\ speech' = SpeechAfter(speech, live', FALSE, 0)
  /\ summaryRequests' = summaryRequests + CountSummary(r.issue)
  /\ UNCHANGED <<view, refs, countdownArmed, uploads, backend>>

Render ==
  /\ live # view \/ \E k \in 1..Len(inflight) : inflight[k].fresh
  /\ view' = live
  /\ live' = AfterEffects(view, live, refs)
  /\ refs' = RefsAfter(refs, live)
  /\ countdownArmed' = ArmedAfter(view, live, countdownArmed)
  /\ inflight' = Settle(inflight \o EffectIssue(live))
  /\ speech' = SpeechAfter(speech, live', SpeakDue(refs, live), live.currentTopicIndex)
  /\ pending' = 0
  /\ UNCHANGED <<uploads, summaryRequests, backend>>

\* the callbacks that ran since the last render left the state as rendered:
\* React renders nothing and the next callback runs
NoRender ==
  /\ pending > 0 /\ live = view /\ \A k \in 1..Len(inflight) : ~inflight[k].fresh
  /\ pending' = 0
  /\ UNCHANGED <<live, view, refs, inflight, countdownArmed, uploads, summaryRequests, backend,
                 speech>>

\* -------------------------------------------------------------- prepareTopic
\* statuses written by both branches of prepareTopic
MarkActive(ts, index) ==
  [k \in 1..Len(ts) |->
     [ts[k] EXCEPT !.status = IF k - 1 = index THEN "active"
                              ELSE IF k - 1 < index THEN "done" ELSE @]]

\* timeLeft: t.timeLeft || TOPIC_SECONDS
TimeLeftOrDefault(t) == IF t = 0 THEN TOPIC_SECONDS ELSE t

AppendOpening(ts, index, questionText) ==
  [k \in 1..Len(ts) |->
     IF k - 1 = index
       THEN [ts[k] EXCEPT !.turns = Append(@, AiTurn(questionText)),
                          !.status = "active",
                          !.timeLeft = TimeLeftOrDefault(@),
                          !.started = TRUE,
                          !.asked = TRUE]
       ELSE [ts[k] EXCEPT !.status = IF k - 1 < index THEN "done" ELSE @]]

\* a catch block that also drops the chosen modality
PrepareFailed_ClearsMode(l) ==
  [l EXCEPT !.error = "first-question-failed", !.phase = "upload", !.aiGenerating = FALSE,
            !.interviewMode = "none"]

\* catch block of prepareTopic
PrepareFailed(l) == [l EXCEPT !.error = "first-question-failed", !.phase = "upload", !.aiGenerating = FALSE]

\* setAdvancing(false) after the await in completeTopic
Release(l, adv) == IF adv THEN [l EXCEPT !.advancing = FALSE] ELSE l

\* prepareTopic up to its await; adv: called from completeTopic
prepareTopic(l, index, nextTopics, from, adv, fresh) ==
  LET l1 == [l EXCEPT !.phase = "prep", !.modal = "none", !.aiGenerating = TRUE,
                      !.studentInput = "", !.isTyping = FALSE]
  IN IF ~HasTopic(nextTopics, index)
       THEN Result(Release(PrepareFailed(l1), adv), <<>>)
     ELSE IF TopicAt(nextTopics, index).asked /\ AlreadyHasQuestion(TopicAt(nextTopics, index))
       THEN Result(Release([l1 EXCEPT !.topicsState = MarkActive(@, index),
                                      !.currentTopicIndex = index,
                                      !.aiGenerating = FALSE,
                                      !.phase = "interview"], adv), <<>>)
     ELSE Result(l1, <<Task("prepare", index, from, <<>>, <<>>, adv, fresh)>>)

\* an advance that stepped the index relatively,
\* setCurrentTopicIndex((prev) => prev + 1), in its place
IndexAfterPrepare_Increment(l, t) ==
  IF t.adv THEN l.currentTopicIndex + 1 ELSE t.index

\* setCurrentTopicIndex(index)
IndexAfterPrepare(l, t) == t.index

\* a catch block that falls back to a default question and enters the
\* interview all the same
PrepareResolved_EntersAnyway(l, t, ok) ==
  Release([l EXCEPT !.topicsState = AppendOpening(@, t.index, IF ok THEN "q" ELSE "default"),
                    !.currentTopicIndex = IndexAfterPrepare(l, t),
                    !.aiGenerating = FALSE,
                    !.phase = "interview"], t.adv)

\* prepareTopic after its await
PrepareResolved(l, t, ok) ==
  Release(IF ok
            THEN [l EXCEPT !.topicsState = AppendOpening(@, t.index, "q"),
                           !.currentTopicIndex = IndexAfterPrepare(l, t),
                           !.aiGenerating = FALSE,
                           !.phase = "interview"]
            ELSE PrepareFailed(l), t.adv)

\* ------------------------------------------------------------------ actions
\* handleUpload up to its first await, in a run that submits at most
\* max documents
Upload(file, max) ==
  /\ view.phase = "upload"
  /\ Len(inflight) < MaxInflight
  /\ file = "pdf" => uploads < max
  /\ IF file # "pdf"
       THEN Flushed(Result([live EXCEPT !.error = "pdf-only"], <<>>), countdownArmed)
       ELSE Flushed(Result([live EXCEPT !.error = "", !.phase = "analyzing"],
                           <<Task("analyze", 0, 0, <<>>, <<>>, FALSE, FALSE)>>), countdownArmed)

HandleUpload(file) == Upload(file, MaxUploads)

\* handleUpload after its awaits. n: number of topics in the analysis
\* result; ok = FALSE: the file read or the request failed
AnalyzeResolved(l, ok, n) ==
  IF ok /\ Min(n, TopicLimit) > 0
    THEN [l EXCEPT !.assignmentText = "text",
                   !.topicsState = NormalizedTopics(Min(n, TopicLimit)),
                   !.currentTopicIndex = 0,
                   !.phase = "modeSelect"]
    ELSE [l EXCEPT !.error = "upload-failed", !.phase = "upload"]

AnalyzeResolve(i, ok, n) ==
  /\ inflight[i].kind = "analyze" /\ ~inflight[i].fresh
  /\ Resolved(i, Result(AnalyzeResolved(live, ok, n), <<>>))

HandleModeSelect(mode) ==
  /\ view.phase = "modeSelect"
  /\ Len(inflight) < MaxInflight
  /\ Flushed(prepareTopic([live EXCEPT !.interviewMode = mode], 0, view.topicsState,
                          view.currentTopicIndex, FALSE, FALSE),
             countdownArmed)

PrepareResolve(i, ok) ==
  /\ inflight[i].kind = "prepare" /\ ~inflight[i].fresh
  /\ Resolved(i, Result(PrepareResolved(live, inflight[i], ok), <<>>))

\* ----------------------------------------------------------- finalizeSession
\* finalizeSession up to its await
finalizeSession(l, doneTopics, from, adv, fresh) ==
  Result([l EXCEPT !.phase = "finalizing"],
         <<Task("summary", 0, from, <<>>, buildTranscript(doneTopics), adv, fresh)>>)

\* setPhase("result") at the end of the try block instead of in finally
SummaryResolved_NoFinally(l, t, outcome) ==
  Release(IF outcome = "error"
            THEN [l EXCEPT !.error = "summary-failed"]
            ELSE [l EXCEPT !.resultSummary = <<SummaryBody(outcome)>>,
                           !.phase = "result", !.aiGenerating = FALSE], t.adv)

\* finalizeSession after its await
SummaryResolved(l, t, outcome) ==
  LET l1 == IF outcome = "error"
              THEN [l EXCEPT !.error = "summary-failed"]
              ELSE [l EXCEPT !.resultSummary = <<SummaryBody(outcome)>>]
  IN Release([l1 EXCEPT !.phase = "result", !.aiGenerating = FALSE], t.adv)

\* ------------------------------------------------------------- completeTopic
\* the updater of setTopicsState in completeTopic
MarkDone(ts, index) ==
  [k \in 1..Len(ts) |->
     IF k - 1 = index
       THEN [ts[k] EXCEPT !.status = "done", !.timeLeft = Max(0, @)]
       ELSE ts[k]]

\* stopSpeaking(); stopListening();
StopSpeech(l) == stopListening([l EXCEPT !.isSpeaking = FALSE])

\* if (advancing) return;
AdvanceRejected(v) == v.advancing

\* const nextIndex = currentTopicIndex + 1
NextIndex(v) == v.currentTopicIndex + 1

\* completeTopic up to its await, called with the closure of render v.
\* `updated` is assigned inside the updater: it holds the mapped pending
\* state if React has run the updater by the time prepareTopic or
\* finalizeSession is called (eager), else still the closure's topicsState.
completeTopic(l, v, eager, fresh) ==
  IF AdvanceRejected(v) THEN Result(l, <<>>)
  ELSE
    LET l1 == [StopSpeech(l) EXCEPT !.advancing = TRUE, !.modal = "none", !.aiGenerating = FALSE,
                                    !.isTyping = FALSE, !.studentInput = "",
                                    !.topicsState = MarkDone(@, v.currentTopicIndex)]
        updated == IF eager THEN l1.topicsState ELSE v.topicsState
        r == IF NextIndex(v) < Len(v.topicsState)
               THEN prepareTopic(l1, NextIndex(v), updated, v.currentTopicIndex, TRUE, fresh)
               ELSE finalizeSession(l1, updated, v.currentTopicIndex, TRUE, fresh)
    IN Result(r.live, CaptureIssue(l, fresh) \o r.issue)

\* ------------------------------------------------------------ interview card
\* const inputDisabled = ...
inputDisabled(v) == v.phase # "interview" \/ v.aiGenerating \/ v.modal = "auto-exit"

\* InterviewCard is rendered
CardShown(v) == v.phase = "interview" /\ HasTopic(v.topicsState, v.currentTopicIndex)

\* onChange of the textarea
OnTyping(input) ==
  /\ CardShown(view) /\ view.interviewMode # "voice" /\ ~inputDisabled(view)
  /\ input # view.studentInput
  /\ Flushed(Result([live EXCEPT !.studentInput = input, !.isTyping = TRUE], <<>>), countdownArmed)

\* the 5 s timeout of the isTyping effect
TypingTimeout ==
  /\ view.isTyping
  /\ Deferred(Result([live EXCEPT !.isTyping = FALSE], <<>>), countdownArmed)

\* the student's turn appended by the updater of handleSend and
\* handleVoiceSubmit, and the value the updater leaves in nextTurns
AppendTurn(ts, index, turn) ==
  [k \in 1..Len(ts) |-> IF k - 1 = index THEN [ts[k] EXCEPT !.turns = Append(@, turn)] ELSE ts[k]]
NextTurns(ts, index, turn) ==
  IF HasTopic(ts, index) THEN Append(TopicAt(ts, index).turns, turn) ELSE <<>>

\* the updater after a successful fetchQuestion
SetTurns(ts, index, turns) ==
  [k \in 1..Len(ts) |-> IF k - 1 = index THEN [ts[k] EXCEPT !.turns = turns] ELSE ts[k]]

\* handleSend up to its await, with the closure of render v
handleSend(l, v) ==
  IF Trim(v.studentInput) = "" \/ ~HasTopic(v.topicsState, v.currentTopicIndex)
    THEN Result(l, <<>>)
    ELSE LET turn == StudentTurn(Trim(v.studentInput))
         IN Result([l EXCEPT !.studentInput = "", !.isTyping = FALSE,
                             !.topicsState = AppendTurn(@, v.currentTopicIndex, turn),
                             !.aiGenerating = TRUE],
                   <<Task("question", v.currentTopicIndex, v.currentTopicIndex,
                          NextTurns(l.topicsState, v.currentTopicIndex, turn), <<>>, FALSE, FALSE)>>)

HandleSend ==
  /\ CardShown(view) /\ view.interviewMode # "voice" /\ ~inputDisabled(view)
  /\ Len(inflight) < MaxInflight
  /\ Len(TopicAt(view.topicsState, view.currentTopicIndex).turns) + 2 <= MaxTurns
  /\ Flushed(handleSend(live, view), countdownArmed)

\* a catch block that takes the unanswered student turn back
QuestionResolved_Rollback(l, t, ok) ==
  LET l1 == IF ok
              THEN [l EXCEPT !.topicsState = SetTurns(@, t.index, Append(t.nextTurns, AiTurn("q")))]
              ELSE [l EXCEPT !.error = "question-failed",
                             !.topicsState = SetTurns(@, t.index,
                                 SubSeq(t.nextTurns, 1, Len(t.nextTurns) - 1))]
  IN [l1 EXCEPT !.aiGenerating = FALSE]

\* handleSend / handleVoiceSubmit after the await of fetchQuestion
QuestionResolved(l, t, ok) ==
  LET l1 == IF ok
              THEN [l EXCEPT !.topicsState = SetTurns(@, t.index, Append(t.nextTurns, AiTurn("q")))]
              ELSE [l EXCEPT !.error = "question-failed"]
  IN [l1 EXCEPT !.aiGenerating = FALSE]

QuestionResolve(i, ok) ==
  /\ inflight[i].kind = "question" /\ ~inflight[i].fresh
  /\ Resolved(i, Result(QuestionResolved(live, inflight[i], ok), <<>>))

\* handleVoiceSubmit up to await stopListening(); recording: the recorder
\* is active, so stopListening sets isTranscribing
HandleVoiceSubmit(recording) ==
  /\ CardShown(view) /\ view.interviewMode = "voice"
  /\ ~(inputDisabled(view) \/ view.aiGenerating \/ view.isSpeaking
        \/ view.turnSubmitted \/ view.isTranscribing)
  /\ Len(inflight) < MaxInflight
  /\ Len(TopicAt(view.topicsState, view.currentTopicIndex).turns) + 2 <= MaxTurns
  /\ recording => live.isListening
  /\ Flushed(Result([live EXCEPT !.turnSubmitted = TRUE, !.isTranscribing = recording,
                                 !.isListening = FALSE],
                    <<Task("stt", view.currentTopicIndex, view.currentTopicIndex, <<>>, <<>>, FALSE, FALSE)>>),
             countdownArmed)

\* handleVoiceSubmit between its two awaits; text: the transcription
SttResolved(l, t, text) ==
  LET turn == StudentTurn(IF Trim(text) = "" THEN NoResponse ELSE Trim(text))
  IN Result([l EXCEPT !.isTranscribing = FALSE, !.studentInput = "",
                      !.topicsState = AppendTurn(@, t.index, turn),
                      !.aiGenerating = TRUE],
            <<Task("question", t.index, t.from, NextTurns(l.topicsState, t.index, turn), <<>>, FALSE, TRUE)>>)

\* stopListening returns "" at once when the recorder is inactive
SttResolve(i, text) ==
  /\ inflight[i].kind = "stt" /\ ~inflight[i].fresh
  /\ text # "" => live.isTranscribing
  /\ Resolved(i, SttResolved(live, inflight[i], text))

\* the text of a recording stopped outside handleVoiceSubmit arrives:
\* setTranscript(text), which the transcript effect copies to studentInput
\* in voice mode
CaptureResolve(i, text) ==
  /\ inflight[i].kind = "capture" /\ ~inflight[i].fresh
  /\ Resolved(i, Result([live EXCEPT !.isTranscribing = FALSE,
                                     !.studentInput = IF live.interviewMode = "voice" /\ text # ""
                                                        THEN text ELSE @], <<>>))

\* the validationFn handed to speak by the speak effect, evaluated on
\* phaseRef and topicIndexRef, which hold the values of render v
validationFn(v, topic) == v.phase = "interview" /\ v.currentTopicIndex = topic

\* POST /api/tts of speak() is answered: the audio starts if the request
\* is still the latest, validationFn holds and the response is ok;
\* otherwise setIsSpeaking(false)
TtsResolve(ok) ==
  /\ speech.state = "requested"
  /\ IF ok /\ validationFn(view, speech.topic)
       THEN /\ speech' = Playing(speech.topic)
            /\ UNCHANGED <<live, view, refs, inflight, countdownArmed, pending, uploads,
                           summaryRequests, backend>>
       ELSE Deferred(Result([live EXCEPT !.isSpeaking = FALSE], <<>>), countdownArmed)

\* audio.onended / onerror
SpeakEnd ==
  /\ speech.state = "playing"
  /\ Deferred(Result([live EXCEPT !.isSpeaking = FALSE], <<>>), countdownArmed)

\* shouldTick without its first disjunct: the manual-exit modal pauses the
\* timer like any other state
shouldTick_NoManual(v) ==
  /\ v.isTyping \/ TopicAt(v.topicsState, v.currentTopicIndex).started
  /\ ~v.aiGenerating /\ ~v.isSpeaking /\ v.modal # "auto-exit"

\* const shouldTick = ...
shouldTick(v) ==
  \/ v.modal = "manual-exit"
  \/ /\ v.isTyping \/ TopicAt(v.topicsState, v.currentTopicIndex).started
     /\ ~v.aiGenerating /\ ~v.isSpeaking /\ v.modal # "auto-exit"

\* the interval of the topic timer effect is installed by render v
TimerRunning(v) ==
  /\ v.phase = "interview"
  /\ HasTopic(v.topicsState, v.currentTopicIndex)
  /\ TopicAt(v.topicsState, v.currentTopicIndex).timeLeft > 0
  /\ shouldTick(v)

\* an updater that leaves the clock where it is
Tick_Frozen(ts, index) == ts

\* the updater of the interval callback
Tick(ts, index) ==
  [k \in 1..Len(ts) |->
     IF k - 1 = index THEN [ts[k] EXCEPT !.timeLeft = Max(0, @ - 1)] ELSE ts[k]]

\* the interval callback of the topic timer effect
TimerTickWithin(max) ==
  /\ TimerRunning(view)
  /\ DeferredWithin(Result([live EXCEPT !.topicsState = Tick(@, view.currentTopicIndex)], <<>>),
                    countdownArmed, max)

TimerTick == TimerTickWithin(MaxPending)

OnManualExit ==
  /\ CardShown(view) /\ view.modal # "auto-exit"
  /\ Flushed(Result([live EXCEPT !.modal = "manual-exit"], <<>>), countdownArmed)

\* a cancel button in the auto-exit modal as well
OnCancelExit_AnyModal ==
  /\ CardShown(view) /\ view.modal # "none"
  /\ Flushed(Result([live EXCEPT !.modal = "none"], <<>>), countdownArmed)

\* onCancelExit; the button is rendered in the manual-exit modal only
OnCancelExit ==
  /\ CardShown(view) /\ view.modal = "manual-exit"
  /\ Flushed(Result([live EXCEPT !.modal = "none"], <<>>), countdownArmed)

\* onConfirmExit: completeTopic("manual")
OnConfirmExit(eager) ==
  /\ CardShown(view) /\ view.modal # "none"
  /\ Len(inflight) < MaxInflight
  /\ Flushed(completeTopic(live, view, eager, FALSE), countdownArmed)

\* the interval callback of the countdown effect; at prev <= 1 it clears
\* the interval and calls completeTopic("auto") with the effect's closure
CountdownTick(eager) ==
  /\ countdownArmed
  /\ IF live.autoCountdown <= 1
       THEN LET r == completeTopic(live, view, eager, TRUE)
            IN /\ Len(inflight) < MaxInflight
               /\ Deferred(Result([r.live EXCEPT !.autoCountdown = 0], r.issue), FALSE)
       ELSE Deferred(Result([live EXCEPT !.autoCountdown = @ - 1], <<>>), countdownArmed)

SummaryResolve(i, outcome) ==
  /\ inflight[i].kind = "summary" /\ ~inflight[i].fresh
  /\ outcome \in SummaryOutcomes(inflight[i].transcript)
  /\ Resolved(i, Result(SummaryResolved(live, inflight[i], outcome), <<>>))

handleReset(l) ==
  [StopSpeech(l) EXCEPT !.phase = "upload", !.assignmentText = "", !.topicsState = <<>>,
                        !.currentTopicIndex = 0,
                        !.aiGenerating = FALSE, !.isTyping = FALSE, !.studentInput = "",
                        !.error = "", !.modal = "none", !.resultSummary = <<>>,
                        !.advancing = FALSE, !.interviewMode = "none", !.turnSubmitted = FALSE]

HandleReset ==
  /\ view.phase = "result"
  /\ UNCHANGED <<uploads, backend>>
  /\ pending' = 0
  /\ view' = handleReset(live)
  /\ live' = AfterEffects(view, handleReset(live), refs)
  /\ refs' = RefsAfter(refs, handleReset(live))
  /\ countdownArmed' = ArmedAfter(view, handleReset(live), countdownArmed)
  /\ inflight' = Settle(inflight \o CaptureIssue(live, FALSE) \o EffectIssue(handleReset(live)))
  /\ speech' = SpeechAfter(speech, live', SpeakDue(refs, handleReset(live)), 0)
  /\ summaryRequests' = 0

Next ==
  \/ \E file \in Files : HandleUpload(file)
  \/ \E i \in 1..Len(inflight), ok \in BOOLEAN, n \in 0..MaxAnalysisTopics : AnalyzeResolve(i, ok, n)
  \/ \E mode \in {"chat", "voice"} : HandleModeSelect(mode)
  \/ \E i \in 1..Len(inflight), ok \in BOOLEAN : PrepareResolve(i, ok)
  \/ \E input \in Inputs : OnTyping(input)
  \/ TypingTimeout
  \/ HandleSend
  \/ \E i \in 1..Len(inflight), ok \in BOOLEAN : QuestionResolve(i, ok)
  \/ \E recording \in BOOLEAN : HandleVoiceSubmit(recording)
  \/ \E i \in 1..Len(inflight), text \in Inputs : SttResolve(i, text)
  \/ \E i \in 1..Len(inflight), text \in {"", "a"} : CaptureResolve(i, text)
  \/ \E ok \in BOOLEAN : TtsResolve(ok)
  \/ SpeakEnd
  \/ TimerTick
  \/ OnManualExit
  \/ OnCancelExit
  \/ \E eager \in BOOLEAN : OnConfirmExit(eager)
  \/ \E eager \in BOOLEAN : CountdownTick(eager)
  \/ \E i \in 1..Len(inflight) : \E outcome \in {"ok", "unparseable", "error"} : SummaryResolve(i, outcome)
  \/ HandleReset
  \/ Render
  \/ NoRender

Spec == Init /\ [][Next]_vars

\* the continuation of request i of inflight runs
RequestResolves(i) ==
  \/ \E ok \in BOOLEAN, n \in 0..MaxAnalysisTopics : AnalyzeResolve(i, ok, n)
  \/ \E ok \in BOOLEAN : PrepareResolve(i, ok) \/ QuestionResolve(i, ok)
  \/ \E text \in Inputs : SttResolve(i, text) \/ CaptureResolve(i, text)
  \/ \E outcome \in {"ok", "unparseable", "error"} : SummaryResolve(i, outcome)

\* ------------------------------------------------------- the backend alone
FrontendIdle ==
  UNCHANGED <<live, view, refs, inflight, countdownArmed, pending, uploads, summaryRequests,
              speech>>

\* what the model may answer to the analysis prompt, to the question
\* prompt and to the summary prompt
AnalyzeOutputs ==
  {LlmThrows, Text("empty", 0), Text("garbage", 0)}
    \cup {Text(kind, n) : kind \in {"json", "fenced"}, n \in -1..MaxParsedTopics}
QuestionOutputs == {LlmThrows, Text("empty", 0), Text("plain", 0)}
SummaryOutputs == {LlmThrows, Text("empty", 0), Text("garbage", 0), Text("json", 0), Text("fenced", 0)}

PostAnalyze(req, llm) ==
  /\ backend' = Exchange(backend.hasApiKey, "analyze", req, llm, analyze(backend.hasApiKey, req, llm))
  /\ FrontendIdle

PostQuestion(req, llm) ==
  /\ backend' = Exchange(backend.hasApiKey, "question", req, llm, question(backend.hasApiKey, req, llm))
  /\ FrontendIdle

PostSummary(req, llm) ==
  /\ backend' = Exchange(backend.hasApiKey, "summary", req, llm, summary(backend.hasApiKey, req, llm))
  /\ FrontendIdle

InitBackend ==
  /\ live = InitialState /\ view = InitialState /\ refs = InitialRefs
  /\ inflight = <<>> /\ countdownArmed = FALSE
  /\ pending = 0 /\ uploads = 0 /\ summaryRequests = 0 /\ speech = Idle
  /\ \E hasApiKey \in BOOLEAN : backend = BackendIdle(hasApiKey)

NextBackend ==
  \/ \E assignmentText \in {"", "essay"}, pdf \in {"none", "corrupt", "blank", "essay"}, llm \in AnalyzeOutputs :
       PostAnalyze(Request(assignmentText, pdf, FALSE, ""), llm)
  \/ \E topic \in BOOLEAN, llm \in QuestionOutputs :
       PostQuestion(Request("essay", "none", topic, ""), llm)
  \/ \E transcript \in {"", "log"}, llm \in SummaryOutputs :
       PostSummary(Request("essay", "none", TRUE, transcript), llm)

SpecBackend == InitBackend /\ [][NextBackend]_vars

\* ================================================================= properties
Topics == live.topicsState
TurnsOf(ts, k) == ts[k].turns
ActiveTopics(ts) == {k \in 1..Len(ts) : ts[k].status = "active"}
AllDone(ts) == \A k \in 1..Len(ts) : ts[k].status = "done"
PrepareTasks == {k \in 1..Len(inflight) : inflight[k].kind = "prepare"}
\* a call of completeTopic: the confirm button, or the countdown reaching 0
CompleteTopicCalled ==
  \E eager \in BOOLEAN : OnConfirmExit(eager) \/ (live.autoCountdown <= 1 /\ CountdownTick(eager))

\* C1: when the opening question requested by an advance from topic i
\* arrives, currentTopicIndex becomes i + 1, also when a second advance from
\* topic i was started concurrently and has already moved the index.
C1_IndexAdvancesByOne ==
  [][\A i \in 1..Len(inflight) :
       (inflight[i].kind = "prepare" /\ inflight[i].adv /\ PrepareResolve(i, TRUE))
         => live'.currentTopicIndex = inflight[i].from + 1]_vars

\* both of two concurrent advances from the topic before the current one
\* have resolved: the current topic got two opening questions
C1_Witness ==
  /\ live.phase = "interview" /\ PrepareTasks = {}
  /\ live.currentTopicIndex > 0 /\ HasTopic(Topics, live.currentTopicIndex)
  /\ LET turns == TopicAt(Topics, live.currentTopicIndex).turns
     IN Len(turns) >= 2 /\ turns[1].role = "ai" /\ turns[2].role = "ai"

\* C2: while an advance is in progress (advancing is set), a further call
\* of completeTopic changes no session state and issues no request.
C2_AdvanceIsNoOpWhileInProgress ==
  [][(live.advancing /\ CompleteTopicCalled)
       => /\ Len(inflight') = Len(inflight)
          /\ live'.phase = live.phase
          /\ live'.topicsState = live.topicsState
          /\ live'.currentTopicIndex = live.currentTopicIndex]_vars

\* the topic that request t was issued for is no longer the active topic
StaleResponse(t) ==
  /\ HasTopic(Topics, t.index)
  /\ live.currentTopicIndex # t.index \/ TopicAt(Topics, t.index).status # "active"

\* C3: a question response for a topic that is no longer the active topic
\* changes no topic's turn count.
C3_StaleResponseDiscarded ==
  [][\A i \in 1..Len(inflight) :
       (inflight[i].kind = "question" /\ StaleResponse(inflight[i])
          /\ \E ok \in BOOLEAN : QuestionResolve(i, ok))
         => /\ Len(live'.topicsState) = Len(Topics)
            /\ \A k \in 1..Len(Topics) : Len(TurnsOf(live'.topicsState, k)) = Len(TurnsOf(Topics, k))]_vars

\* C4: the summary request is issued only while every topic is done, and a
\* session that has reached finalizing or result has issued it exactly once.
C4_SummaryIssuedOnce ==
  /\ live.phase = "finalizing" => AllDone(Topics)
  /\ live.phase \in {"finalizing", "result"} => summaryRequests = 1

\* every turn of every topic, in topic order and then turn order
RECURSIVE AllTurnLines(_)
AllTurnLines(ts) ==
  IF Len(ts) = 0 THEN <<>>
  ELSE [k \in 1..Len(Head(ts).turns) |-> TranscriptLine(Head(ts).turns[k])] \o AllTurnLines(Tail(ts))
NonEmptyLines(tr) == SelectSeq(tr, LAMBDA line : line # EmptyLine)

\* C5: the transcript sent with the summary request lists every turn held
\* by any topic when the final advance is claimed, in topic order and, within
\* a topic, in turn order.
C5_TranscriptUpToDate ==
  [][summaryRequests' > summaryRequests
       => NonEmptyLines(inflight'[Len(inflight')].transcript) = AllTurnLines(Topics)]_vars

\* C6: whatever the outcome of the summary request, its resolution sets the
\* phase to result.
C6_SummaryAlwaysReachesResult ==
  [][\A i \in 1..Len(inflight) :
       (\E outcome \in {"ok", "unparseable", "error"} : SummaryResolve(i, outcome))
         => live'.phase = "result"]_vars

\* a failed summary request has resolved and the session shows the result
C6_Witness == live.phase = "result" /\ live.error = "summary-failed" /\ summaryRequests = 1

\* resultSummary is an assessment without strengths and with a weakness entry
HoldsPlaceholder(l) ==
  /\ Len(l.resultSummary) = 1
  /\ Len(l.resultSummary[1].strengths) = 0
  /\ Len(l.resultSummary[1].weaknesses) > 0

\* C7: after a failed summary generation (unparseable output, or an error
\* response) the session is in result with an assessment that has no
\* strengths and a placeholder among its weaknesses.
C7_FailedSummaryShowsPlaceholder ==
  [][\A i \in 1..Len(inflight) :
       (\E outcome \in {"unparseable", "error"} : SummaryResolve(i, outcome))
         => live'.phase = "result" /\ HoldsPlaceholder(live')]_vars

\* C8: in phase interview exactly one topic is active, the current one.
C8_OneActiveTopic ==
  live.phase = "interview" => ActiveTopics(Topics) = {live.currentTopicIndex + 1}

\* C9: timeLeft is never negative, and no step increases the timeLeft of a
\* topic that is active before and after it.
C9_TimeLeftMonotone ==
  /\ [](\A k \in 1..Len(Topics) : Topics[k].timeLeft >= 0)
  /\ [][\A k \in 1..Len(Topics) :
          (Len(live'.topicsState) = Len(Topics) /\ Topics[k].status = "active"
             /\ live'.topicsState[k].status = "active")
            => live'.topicsState[k].timeLeft <= Topics[k].timeLeft]_vars

\* a non-empty answer is submitted: handleSend, or handleVoiceSubmit once
\* the transcription has arrived
AnswerSubmitted ==
  \/ HandleSend /\ Trim(view.studentInput) # ""
  \/ \E i \in 1..Len(inflight), text \in Inputs : Trim(text) # "" /\ SttResolve(i, text)

QuestionTasks(s) == Cardinality({k \in 1..Len(s) : s[k].kind = "question"})
\* an empty or whitespace-only answer is submitted: handleSend, or
\* handleVoiceSubmit once stopListening has returned
EmptySubmitted ==
  \/ HandleSend /\ Trim(view.studentInput) = ""
  \/ \E i \in 1..Len(inflight), text \in Inputs : Trim(text) = "" /\ SttResolve(i, text)

\* C11: submitting an empty or whitespace-only answer, typed or spoken,
\* appends no turn to any topic and issues no question request.
C11_EmptySubmitIsNoOp ==
  [][EmptySubmitted =>
       /\ live'.topicsState = Topics
       /\ QuestionTasks(inflight') = QuestionTasks(inflight)]_vars

\* a question request is outstanding for the current topic
RequestOutstanding ==
  \E k \in 1..Len(inflight) :
     inflight[k].kind = "question" /\ inflight[k].index = live.currentTopicIndex
\* states in which a typed submission is to be rejected
SubmitBlocked == RequestOutstanding \/ view.modal = "auto-exit"

\* C12: while a question request is outstanding for the current topic, or the
\* auto-exit modal is shown, a typed non-empty answer is not taken: handleSend
\* appends no turn, issues no request and leaves the input text.
C12_SubmitRejectedWhileBusy ==
  [][(SubmitBlocked /\ HandleSend /\ Trim(view.studentInput) # "")
       => /\ live'.topicsState = Topics
          /\ QuestionTasks(inflight') = QuestionTasks(inflight)
          /\ live'.studentInput = live.studentInput]_vars

\* C13: no two outstanding question requests are for the same topic.
C13_OneRequestPerTopic ==
  \A i, k \in 1..Len(inflight) :
     (i # k /\ inflight[i].kind = "question" /\ inflight[k].kind = "question")
       => inflight[i].index # inflight[k].index

\* ------------------------------------------------------- three-topic session
\* one chat session over a document with TopicLimit topics, driven by the
\* timers and the exit modal only: no answers are typed or spoken
NextThree ==
  \/ HandleUpload("pdf")
  \/ \E i \in 1..Len(inflight) : AnalyzeResolve(i, TRUE, TopicLimit)
  \/ HandleModeSelect("chat")
  \/ \E i \in 1..Len(inflight), ok \in BOOLEAN : PrepareResolve(i, ok)
  \/ TimerTick
  \/ OnManualExit
  \/ OnCancelExit
  \/ \E eager \in BOOLEAN : OnConfirmExit(eager)
  \/ \E eager \in BOOLEAN : CountdownTick(eager)
  \/ \E i \in 1..Len(inflight) : \E outcome \in {"ok", "unparseable", "error"} : SummaryResolve(i, outcome)
  \/ Render

SpecThree == Init /\ [][NextThree]_vars

\* C14: while a session's topics exist (from the analysis to the reset),
\* currentTopicIndex never takes a lower value than it had.
C14_IndexNeverDecreases ==
  [][(Len(Topics) > 0 /\ Len(live'.topicsState) > 0)
       => live'.currentTopicIndex >= live.currentTopicIndex]_vars

\* C15: the step that opens the auto-exit modal sets autoCountdown to
\* AUTO_ADVANCE_SECONDS, and while the modal stays open autoCountdown only
\* counts down: no step raises it or sets it back.
C15_GraceCountdownFixed ==
  /\ [][(live.modal # "auto-exit" /\ live'.modal = "auto-exit")
          => live'.autoCountdown = AUTO_ADVANCE_SECONDS]_vars
  /\ [][(live.modal = "auto-exit" /\ live'.modal = "auto-exit")
          => live'.autoCountdown <= live.autoCountdown]_vars

\* the outstanding requests of s that were issued by an advance from topic i
AdvancesFrom(s, i) == Cardinality({k \in 1..Len(s) : s[k].adv /\ s[k].from = i})
\* the confirm button of the auto-exit modal is pressed
ConfirmDuringCountdown ==
  view.modal = "auto-exit" /\ \E eager \in BOOLEAN : OnConfirmExit(eager)

\* C16: when the user confirms in the auto-exit modal, one advance from the
\* topic is under way afterwards, not two, and the countdown interval is
\* cleared, so it calls completeTopic no more.
C16_ConfirmCancelsCountdown ==
  [][ConfirmDuringCountdown
       => /\ AdvancesFrom(inflight', view.currentTopicIndex) = 1
          /\ ~countdownArmed']_vars

\* C17: the timer decrements timeLeft only when the render that runs it is
\* in phase interview, shows no auto-exit modal, is not generating a question
\* and is not playing one, and no question request is outstanding for the
\* current topic; the manual-exit modal makes no difference to this.
C17_TimerPausePredicate ==
  [][TimerTick
       => /\ view.phase = "interview"
          /\ view.modal # "auto-exit"
          /\ ~view.aiGenerating
          /\ ~view.isSpeaking
          /\ ~RequestOutstanding]_vars

\* the student has begun to answer the current topic of render v: text is
\* being typed or is in the answer box, or the topic holds a student turn
Interacted(v) ==
  \/ v.isTyping
  \/ v.studentInput # ""
  \/ \E k \in 1..Len(TopicAt(v.topicsState, v.currentTopicIndex).turns) :
       TopicAt(v.topicsState, v.currentTopicIndex).turns[k].role = "student"

\* C18: the timer decrements timeLeft of the current topic only after the
\* student has begun to answer it.
C18_ClockWaitsForStudent ==
  [][TimerTick => Interacted(view)]_vars

\* the render shows the manual-exit modal over the current topic
ManualModalShown == CardShown(view) /\ view.modal = "manual-exit"
ShownTimeLeft == TopicAt(view.topicsState, view.currentTopicIndex).timeLeft

UploadFails ==
  \/ HandleUpload("not-pdf")
  \/ \E i \in 1..Len(inflight) :
       \/ \E n \in 0..MaxAnalysisTopics : AnalyzeResolve(i, FALSE, n)
       \/ AnalyzeResolve(i, TRUE, 0)

\* C21: a failed handleUpload leaves phase upload with an error and changes
\* neither the topics nor the document text; a successful one installs the
\* whole topic list, index 0 and the text in one step; no render shows
\* topics without the text or the text without topics.
C21_UploadAtomic ==
  /\ [][UploadFails
          => /\ live'.phase = "upload" /\ live'.error # ""
             /\ live'.topicsState = Topics
             /\ live'.assignmentText = live.assignmentText]_vars
  /\ [][\A i \in 1..Len(inflight), n \in 1..MaxAnalysisTopics :
          AnalyzeResolve(i, TRUE, n)
            => /\ live'.topicsState = NormalizedTopics(Min(n, TopicLimit))
               /\ live'.currentTopicIndex = 0
               /\ live'.assignmentText # ""
               /\ live'.phase = "modeSelect"]_vars
  /\ [](Len(view.topicsState) > 0 <=> view.assignmentText # "")

\* a step that enters the interview on a topic: the phase becomes interview,
\* or the current index changes while it is
EntersInterview ==
  /\ live'.phase = "interview"
  /\ live.phase # "interview" \/ live'.currentTopicIndex # live.currentTopicIndex
\* the opening question of topic i has been delivered by this step or before
OpeningSucceeded(i) ==
  \/ \E k \in 1..Len(inflight) : inflight[k].index = i /\ PrepareResolve(k, TRUE)
  \/ HasTopic(Topics, i) /\ TopicAt(Topics, i).asked /\ AlreadyHasQuestion(TopicAt(Topics, i))

\* C22: the interview on topic i is entered only by a step at which the
\* request for the opening question of topic i succeeds (or has succeeded
\* before, when the topic already holds its question); when that request
\* fails, the phase becomes upload with an error, the index and the topics
\* stay as they were, and the interview is not entered by that step
C22_InterviewNeedsOpening ==
  /\ [][EntersInterview => OpeningSucceeded(live'.currentTopicIndex)]_vars
  /\ [][\A k \in 1..Len(inflight) :
          PrepareResolve(k, FALSE) =>
            /\ live'.phase = "upload"
            /\ live'.error = "first-question-failed"
            /\ live'.currentTopicIndex = live.currentTopicIndex
            /\ live'.topicsState = Topics]_vars

\* the opening question of a later topic has failed: the upload screen is
\* shown with the error while the first topic is done
C22_Witness ==
  /\ view.phase = "upload" /\ view.error = "first-question-failed"
  /\ Len(view.topicsState) >= 2 /\ view.topicsState[1].status = "done"
  /\ ~AlreadyHasQuestion(view.topicsState[2])

\* turns is the opening question followed by student-then-system pairs,
\* the last of which may still wait for its system turn
Alternates(turns) ==
  \A k \in 1..Len(turns) : turns[k].role = IF k % 2 = 1 THEN "ai" ELSE "student"
\* the last two turns are a student turn followed by a system turn
EndsWithPair(turns) ==
  /\ Len(turns) >= 2
  /\ turns[Len(turns) - 1].role = "student" /\ turns[Len(turns)].role = "ai"

\* C23: when the question request of a submitted answer succeeds, the topic
\* has exactly two turns more than when the answer was submitted, the
\* student's turn followed by the system turn; and at all times the turns
\* of every topic are the opening question followed by alternating student
\* and system turns
C23_TurnsInPairs ==
  /\ [][\A i \in 1..Len(inflight) :
          (inflight[i].kind = "question" /\ QuestionResolve(i, TRUE)
             /\ HasTopic(Topics, inflight[i].index)) =>
            LET after == TopicAt(live'.topicsState, inflight[i].index).turns
            IN /\ Len(after) = Len(inflight[i].nextTurns) + 1
               /\ EndsWithPair(after)]_vars
  /\ [](\A k \in 1..Len(Topics) : Alternates(TurnsOf(Topics, k)))

\* the control that submits an answer is enabled in render v: the send
\* button of the chat card, the submit button of the voice card
SubmitEnabled(v) ==
  IF v.interviewMode = "voice"
    THEN ~(inputDisabled(v) \/ v.aiGenerating \/ v.isSpeaking \/ v.turnSubmitted \/ v.isTranscribing)
    ELSE ~inputDisabled(v)
\* the card is shown at rest with the error of a failed question: nothing
\* is outstanding, no modal is open, nothing is being played
RestsAfterQuestionFailure ==
  /\ view.error = "question-failed" /\ live = view /\ Len(inflight) = 0
  /\ CardShown(view) /\ view.modal = "none" /\ ~view.isSpeaking

\* C24: when the question request of a submitted answer fails, in chat and
\* in voice mode alike, the phase, the current topic and all turns stay as
\* they are and the error is set; and once the card is at rest with that
\* error, a further answer can be submitted
C24_RetryAfterQuestionFailure ==
  /\ [][\A i \in 1..Len(inflight) :
          QuestionResolve(i, FALSE) =>
            /\ live'.phase = live.phase
            /\ live'.currentTopicIndex = live.currentTopicIndex
            /\ live'.topicsState = Topics
            /\ live'.error = "question-failed"]_vars
  /\ [](RestsAfterQuestionFailure => SubmitEnabled(view))

\* the session as the browser schedules it when the backend may stay
\* silent: a scheduled render is committed and a running timer fires, but
\* no request is bound to resolve (fetch is given no timeout or abort
\* signal)
SpecSilentBackend ==
  /\ Init /\ [][Next]_vars
  /\ WF_vars(Render)
  /\ WF_vars(NoRender)
  /\ WF_vars(TimerTick)
  /\ WF_vars(TypingTimeout)
  /\ WF_vars(SpeakEnd)
  /\ WF_vars(\E eager \in BOOLEAN : CountdownTick(eager))

\* the phases in which the session waits for a request
WaitingPhases == {"analyzing", "prep", "finalizing"}
\* an in-topic round waits for the next question
RoundWaiting(v) == v.phase = "interview" /\ v.aiGenerating

\* C25: every wait for an external request ends, whether or not the backend
\* ever answers: the phases analyzing, prep and finalizing are each left
\* eventually, and so is an in-topic round that waits for its question
C25_EveryWaitEnds ==
  /\ \A ph \in WaitingPhases : (view.phase = ph) ~> (view.phase # ph)
  /\ RoundWaiting(view) ~> ~RoundWaiting(view)

\* a chat session on whatever the analysis returns
NextTopics ==
  \/ HandleUpload("pdf")
  \/ \E i \in 1..Len(inflight), k \in 0..MaxParsedTopics : AnalyzeResolve(i, TRUE, AnalysisTopics(k))
  \/ HandleModeSelect("chat")
  \/ \E i \in 1..Len(inflight), ok \in BOOLEAN : PrepareResolve(i, ok)
  \/ TimerTick
  \/ OnManualExit
  \/ \E eager \in BOOLEAN : OnConfirmExit(eager)
  \/ \E eager \in BOOLEAN : CountdownTick(eager)
  \/ \E i \in 1..Len(inflight) : \E outcome \in {"ok", "unparseable", "error"} : SummaryResolve(i, outcome)
  \/ Render

SpecTopics == Init /\ [][NextTopics]_vars

\* the topics of ts in order, by the id the analysis gave them
TopicIds(ts) == [k \in 1..Len(ts) |-> ts[k].id]
\* the step sends the summary request
EntersFinalizing == live'.phase = "finalizing" /\ live.phase # "finalizing"

\* C26: when the analysis returns n topics, 1 <= n <= 5, the topic list of
\* the session is those n topics in the returned order, each with the full
\* time budget of its own; and the summary is requested only when every
\* topic of the list has been asked about and marked done
C26_AllTopicsInterviewed ==
  /\ [][\A i \in 1..Len(inflight), k \in 1..MaxParsedTopics :
          AnalyzeResolve(i, TRUE, AnalysisTopics(k)) =>
            /\ TopicIds(live'.topicsState) = [j \in 1..AnalysisTopics(k) |-> j]
            /\ \A j \in 1..Len(live'.topicsState) :
                 live'.topicsState[j].timeLeft = TOPIC_SECONDS]_vars
  /\ [][EntersFinalizing =>
          \A j \in 1..Len(live'.topicsState) :
            live'.topicsState[j].asked /\ live'.topicsState[j].status = "done"]_vars

\* the request passes the validation of its endpoint and, for an analysis,
\* the document yields text
RequestAccepted ==
  \/ backend.endpoint = "analyze" /\ AssignmentPlain(backend.request) # ""
  \/ backend.endpoint = "question" /\ backend.request.topic
  \/ backend.endpoint = "summary" /\ backend.request.transcript # ""

\* C27: a backend without OPENAI_API_KEY answers every accepted request to
\* a generation endpoint with status 200 and fallback = true: the analysis
\* with exactly the one default topic, the question with the default
\* question text, the summary with the placeholder assessment
C27_FallbackStubs ==
  (~backend.hasApiKey /\ RequestAccepted) =>
    /\ backend.response.status = 200
    /\ backend.response.fallback
    /\ backend.endpoint = "analyze" => backend.response.topics = DefaultTopics
    /\ backend.endpoint = "question" => backend.response.question = DefaultQuestion
    /\ backend.endpoint = "summary" => backend.response.summary = <<PlaceholderSummary>>

\* a backend without a key has answered an analysis of a PDF with the
\* default topic
C27_Witness ==
  /\ ~backend.hasApiKey /\ backend.endpoint = "analyze" /\ backend.request.pdf = "essay"
  /\ backend.response.status = 200 /\ backend.response.fallback
  /\ Len(backend.response.topics) = 1

IsPrefix(s, t) == Len(s) <= Len(t) /\ SubSeq(t, 1, Len(s)) = s
\* the step replaces the topic list as a whole: a new document is
\* installed or the session is reset
TopicListReplaced ==
  \/ HandleReset
  \/ \E i \in 1..Len(inflight), n \in 1..MaxAnalysisTopics : AnalyzeResolve(i, TRUE, n)

\* C28: the turns of a topic only grow at their end: in every step that
\* keeps the topic list, the turns a topic had before the step are a prefix
\* of the turns it has after it
C28_TurnsAppendOnly ==
  [][~TopicListReplaced =>
       /\ Len(live'.topicsState) = Len(Topics)
       /\ \A k \in 1..Len(Topics) :
            IsPrefix(TurnsOf(Topics, k), TurnsOf(live'.topicsState, k))]_vars

\* a prepare or summary request issued by completeTopic is outstanding
AdvanceOutstanding == \E k \in 1..Len(inflight) : inflight[k].adv

\* C29: advancing is true exactly while a prepare or summary request
\* issued by completeTopic is outstanding: it is set when completeTopic
\* claims the advance, stays set until that request resolves, and is
\* cleared when it does, on success and on failure alike
C29_AdvancingHeldAndReleased ==
  /\ [](live.advancing => AdvanceOutstanding)
  /\ [](AdvanceOutstanding => live.advancing)

\* completeTopic runs past its guard
CompleteTopicRuns == CompleteTopicCalled /\ ~AdvanceRejected(view)
\* the audio of a question starts to play
PlaybackStarts == speech'.state = "playing" /\ speech.state # "playing"

\* C30: a run of completeTopic leaves nothing requested or playing and the
\* recorder stopped; and the audio of a question of topic i starts to play
\* only while the phase is interview and the current topic index is i
C30_SpeechCancelledOnSwitch ==
  /\ [][CompleteTopicRuns =>
          (speech' = Idle /\ ~live'.isSpeaking /\ ~live'.isListening)]_vars
  /\ [][PlaybackStarts => validationFn(live, speech'.topic)]_vars

\* the recorder is started by this step
ListeningStarts == live'.isListening /\ ~live.isListening

\* C31: in voice mode the recorder is started only by the render at which
\* playback has gone from speaking to not speaking while the phase is
\* interview, no question is being generated and no answer has been
\* submitted for the current question; and the recorder is never active
\* while the audio of a question is requested or playing
C31_CaptureAfterPlayback ==
  /\ [][ListeningStarts => ListenDue(refs, view')]_vars
  /\ [](live.isListening => (~live.isSpeaking /\ speech = Idle))

\* a chat session in which the upload screen may be used again; the topics
\* are ended by the exit button and its confirmation
NextReupload ==
  \/ Upload("pdf", MaxReuploads)
  \/ \E i \in 1..Len(inflight), ok \in BOOLEAN, n \in 0..MaxAnalysisTopics : AnalyzeResolve(i, ok, n)
  \/ HandleModeSelect("chat")
  \/ \E i \in 1..Len(inflight), ok \in BOOLEAN : PrepareResolve(i, ok)
  \/ \E input \in Inputs : OnTyping(input)
  \/ HandleSend
  \/ \E i \in 1..Len(inflight), ok \in BOOLEAN : QuestionResolve(i, ok)
  \/ OnManualExit
  \/ \E eager \in BOOLEAN : OnConfirmExit(eager)
  \/ \E i \in 1..Len(inflight) : \E outcome \in {"ok", "unparseable", "error"} : SummaryResolve(i, outcome)
  \/ HandleReset
  \/ Render

SpecReupload == Init /\ [][NextReupload]_vars

\* the interview of the session has begun: a topic has been asked about
InterviewBegun == \E k \in 1..Len(Topics) : Topics[k].asked

\* C32: in phase interview currentTopicIndex is the index of a topic of the
\* list, and once the interview has begun no step other than the reset
\* changes the number of topics
C32_IndexInRange ==
  /\ [](live.phase = "interview" => HasTopic(Topics, live.currentTopicIndex))
  /\ [][(InterviewBegun /\ ~HandleReset) => Len(live'.topicsState) = Len(Topics)]_vars

\* position of a status in the order pending, active, done
StatusRank(status) == IF status = "pending" THEN 0 ELSE IF status = "active" THEN 1 ELSE 2

\* C33: the status of a topic only moves forward, pending to active to
\* done: in every step that keeps the topic list, no topic's status moves
\* back
C33_StatusForward ==
  [][~TopicListReplaced =>
       \A k \in 1..Len(Topics) :
          k <= Len(live'.topicsState)
            => StatusRank(live'.topicsState[k].status) >= StatusRank(Topics[k].status)]_vars

\* C34: in phase interview the current topic has at least one turn and its
\* first turn is a turn of the system
C34_OpensWithSystemTurn ==
  live.phase = "interview" =>
    /\ HasTopic(Topics, live.currentTopicIndex)
    /\ Len(TopicAt(Topics, live.currentTopicIndex).turns) >= 1
    /\ TopicAt(Topics, live.currentTopicIndex).turns[1].role = "ai"

\* the session has been reset and no document has been analysed since: what
\* is outstanding was issued before the reset
AfterReset == live.phase = "upload" /\ Len(Topics) = 0 /\ uploads > 0

\* C35: the topic list is emptied by handleReset only, which leaves phase
\* upload, no topics, index 0, no modal, no modality, advancing and the
\* generating flag false and no result summary; and a request issued before
\* the reset that resolves after it changes neither the phase nor the
\* topics and their turns
C35_ResetOnlyByUser ==
  /\ [][(Len(Topics) > 0 /\ Len(live'.topicsState) = 0) => HandleReset]_vars
  /\ [][HandleReset =>
          /\ live'.phase = "upload" /\ live'.topicsState = <<>>
          /\ live'.currentTopicIndex = 0 /\ live'.modal = "none"
          /\ live'.interviewMode = "none" /\ ~live'.advancing
          /\ live'.resultSummary = <<>> /\ ~live'.aiGenerating]_vars
  /\ [][\A i \in 1..Len(inflight) :
          (AfterReset /\ inflight[i].kind # "analyze" /\ RequestResolves(i))
            => live'.phase = live.phase /\ live'.topicsState = Topics]_vars

\* C36: when the interview on topic i is entered, the turns of topic i are
\* exactly one system turn; and the continuation of prepareTopic appends no
\* opening question to a topic that already holds a system turn
C36_OneOpeningQuestion ==
  /\ [][EntersInterview =>
          /\ HasTopic(live'.topicsState, live'.currentTopicIndex)
          /\ LET turns == TopicAt(live'.topicsState, live'.currentTopicIndex).turns
             IN Len(turns) = 1 /\ turns[1].role = "ai"]_vars
  /\ [][\A i \in 1..Len(inflight) :
          (PrepareResolve(i, TRUE) /\ HasTopic(Topics, inflight[i].index)
             /\ AlreadyHasQuestion(TopicAt(Topics, inflight[i].index)))
            => TopicAt(live'.topicsState, inflight[i].index).turns
                 = TopicAt(Topics, inflight[i].index).turns]_vars

\* C37: in phase interview aiGenerating is true whenever a question request
\* for the current topic is outstanding
C37_GeneratingTracksRequest ==
  (live.phase = "interview" /\ RequestOutstanding) => live.aiGenerating

\* the three-topic session in which the callback of the topic timer may run
\* after a continuation and before the render that the continuation
\* scheduled
NextLateTick ==
  \/ HandleUpload("pdf")
  \/ \E i \in 1..Len(inflight) : AnalyzeResolve(i, TRUE, TopicLimit)
  \/ HandleModeSelect("chat")
  \/ \E i \in 1..Len(inflight), ok \in BOOLEAN : PrepareResolve(i, ok)
  \/ TimerTickWithin(MaxPendingTick)
  \/ OnManualExit
  \/ OnCancelExit
  \/ \E eager \in BOOLEAN : OnConfirmExit(eager)
  \/ \E eager \in BOOLEAN : CountdownTick(eager)
  \/ \E i \in 1..Len(inflight) : \E outcome \in {"ok", "unparseable", "error"} : SummaryResolve(i, outcome)
  \/ Render

SpecLateTick == Init /\ [][NextLateTick]_vars

\* a callback of the topic timer runs
TimerTicks == TimerTickWithin(MaxPendingTick)

\* C38: a tick of the topic timer lowers the timeLeft of the current topic
\* by 1, not below 0, and changes nothing else of the topic list: the
\* timeLeft of every other topic, the turns and the status of every topic
\* and currentTopicIndex stay as they are; in particular the timeLeft of a
\* done topic is not changed by a tick
C38_TickFrame ==
  [][TimerTicks =>
       /\ live'.currentTopicIndex = live.currentTopicIndex
       /\ Len(live'.topicsState) = Len(Topics)
       /\ \A k \in 1..Len(Topics) :
            /\ live'.topicsState[k].turns = Topics[k].turns
            /\ live'.topicsState[k].status = Topics[k].status
            /\ live'.topicsState[k].id = Topics[k].id
            /\ live'.topicsState[k].timeLeft =
                 IF k - 1 = live.currentTopicIndex
                   THEN Max(0, Topics[k].timeLeft - 1) ELSE Topics[k].timeLeft
            /\ Topics[k].status = "done" => live'.topicsState[k].timeLeft = Topics[k].timeLeft]_vars

\* a session in chat mode
NextChat ==
  \/ \E file \in Files : HandleUpload(file)
  \/ \E i \in 1..Len(inflight), ok \in BOOLEAN, n \in 0..MaxAnalysisTopics : AnalyzeResolve(i, ok, n)
  \/ HandleModeSelect("chat")
  \/ \E i \in 1..Len(inflight), ok \in BOOLEAN : PrepareResolve(i, ok)
  \/ \E input \in Inputs : OnTyping(input)
  \/ TypingTimeout
  \/ HandleSend
  \/ \E i \in 1..Len(inflight), ok \in BOOLEAN : QuestionResolve(i, ok)
  \/ TimerTick
  \/ OnManualExit
  \/ OnCancelExit
  \/ \E eager \in BOOLEAN : OnConfirmExit(eager)
  \/ \E eager \in BOOLEAN : CountdownTick(eager)
  \/ \E i \in 1..Len(inflight) : \E outcome \in {"ok", "unparseable", "error"} : SummaryResolve(i, outcome)
  \/ HandleReset
  \/ Render
  \/ NoRender

\* the chat session as the browser schedules it: a scheduled render is
\* committed, the interval of the countdown effect fires, and every request
\* is answered or fails
SpecFairCountdown ==
  /\ Init /\ [][NextChat]_vars
  /\ WF_vars(Render)
  /\ WF_vars(NoRender)
  /\ SF_vars(\E eager \in BOOLEAN : CountdownTick(eager))
  /\ SF_vars(\E i \in 1..Len(inflight) : RequestResolves(i))

\* the topic indices of a session
TopicIndices == 0..(Min(MaxAnalysisTopics, TopicLimit) - 1)

\* the auto-exit modal is shown over topic i
AutoModalOpen(i) ==
  /\ CardShown(view) /\ view.modal = "auto-exit" /\ view.currentTopicIndex = i
  /\ live.modal = "auto-exit"
\* completeTopic has run for topic i: the topic is done (or the session
\* that held it has been reset)
Advanced(i) == ~HasTopic(Topics, i) \/ TopicAt(Topics, i).status = "done"

SpecFairSession ==
  /\ Init /\ [][NextChat]_vars
  /\ WF_vars(Render)
  /\ WF_vars(NoRender)
  /\ SF_vars(TimerTick)
  /\ SF_vars(\E eager \in BOOLEAN : CountdownTick(eager))
  /\ SF_vars(\E i \in 1..Len(inflight) : RequestResolves(i))

\* the interview on topic i is shown
InterviewOn(i) == CardShown(view) /\ view.currentTopicIndex = i

====
